---- MODULE Spec2Model ----
(***************************************************************************)
(* Task classification and report aggregation of the ZenAI backend:        *)
(* get_dashboard, get_overdue_tasks, get_at_risk_tasks and                 *)
(* generate_daily_report of app/main.py, generate_report of                *)
(* app/routes/chat.py.                                                     *)
(*                                                                         *)
(* A date string "YYYY-MM-DD" is modelled by the sequence of its numeric   *)
(* fields, <<2024, 2, 29>>; the empty sequence is the absent due date      *)
(* (None or ""), and a sequence that strptime rejects (day 30 of February, *)
(* a missing field) is a malformed string.  A date value is the proleptic  *)
(* Gregorian ordinal that datetime.date carries.                           *)
(***************************************************************************)
EXTENDS Integers, Sequences, FiniteSets, TLC

VARIABLES tasks, today, resp, reports, stream, ws, sched, mail, daily

vars == <<tasks, today, resp, reports, stream, ws, sched, mail, daily>>

(***************************************************************************)
(* Bounds and input sets                                                   *)
(***************************************************************************)
MaxTasks == 3

RiskWindowDays == 2

NoDate == <<>>

ValueError == -1

Statuses == {"Done", "In Progress", "To Do", "Blocked"}

DueStrings == {NoDate, <<2024, 2, 30>>, <<2024, 2, 27>>, <<2024, 2, 29>>, <<2024, 3, 2>>}

Todays == {<<2024, 2, 28>>, <<2024, 2, 29>>, <<2024, 3, 1>>}

Unassigned == [name |-> "Unassigned", email |-> ""]

Asha == [name |-> "Asha", email |-> "team@zen.ai"]

Ben == [name |-> "Ben", email |-> "team@zen.ai"]

RawTask(st, due, who) ==
    [title |-> "Untitled", status |-> st, assignee_name |-> who.name,
     assignee_email |-> who.email, due_date |-> due, priority |-> "Medium"]

\* The task records the source can return: every due string with a Done and
\* a non-Done status, every status label with an overdue date, and named
\* assignees with finished and with active work.
TaskPool ==
    {RawTask(st, due, Unassigned) : st \in {"Done", "To Do"}, due \in DueStrings}
    \cup {RawTask(st, <<2024, 2, 27>>, Unassigned) : st \in Statuses}
    \cup {RawTask("Done", NoDate, Asha), RawTask("In Progress", NoDate, Asha),
          RawTask("In Progress", NoDate, Ben)}

MaxReports == 2

TopN == 10

\* status labels as they reach generate_report, in the spelling of the source
ReportStatuses == {"Done", "Completed", "In Progress", "To Do", "Todo", "Blocked"}

ReportPool == {RawTask(st, NoDate, Unassigned) : st \in ReportStatuses}

ReportTaskLists == UNION {[1..n -> ReportPool] : n \in 0..MaxTasks}

Users == {"pm"}

\* The page url is the identity of a task; the source returns each page once.
WithUrls(ts) == [i \in 1..Len(ts) |-> ts[i] @@ [url |-> i]]

TaskLists == UNION {[1..n -> TaskPool] : n \in 0..MaxTasks}

(***************************************************************************)
(* datetime: strptime(s, "%Y-%m-%d").date(), date arithmetic               *)
(***************************************************************************)
IsLeap(y) == (y % 4 = 0) /\ ((y % 100 # 0) \/ (y % 400 = 0))

DaysInMonth(y, m) ==
    IF m = 2 THEN (IF IsLeap(y) THEN 29 ELSE 28)
    ELSE IF m \in {4, 6, 9, 11} THEN 30 ELSE 31

RECURSIVE DaysBeforeMonth(_, _)
DaysBeforeMonth(y, m) ==
    IF m <= 1 THEN 0 ELSE DaysBeforeMonth(y, m - 1) + DaysInMonth(y, m - 1)

DaysBeforeYear(y) ==
    (y - 1) * 365 + ((y - 1) \div 4) - ((y - 1) \div 100) + ((y - 1) \div 400)

ToOrdinal(d) == DaysBeforeYear(d[1]) + DaysBeforeMonth(d[1], d[2]) + d[3]

\* variant: a day number beyond the end of the month rolls over into the next
strptime_rolls_over(s) ==
    IF /\ Len(s) = 3
       /\ s[1] \in 1..9999
       /\ s[2] \in 1..12
       /\ s[3] \in 1..31
    THEN ToOrdinal(s)
    ELSE ValueError

strptime(s) ==
    IF /\ Len(s) = 3
       /\ s[1] \in 1..9999
       /\ s[2] \in 1..12
       /\ s[3] \in 1..DaysInMonth(s[1], s[2])
    THEN ToOrdinal(s)
    ELSE ValueError

(***************************************************************************)
(* list.sort(key=..., reverse=...): a stable sort.  keys[i] is the key of  *)
(* seq[i]; with reverse the larger key comes first and equal keys keep     *)
(* their original order.                                                   *)
(***************************************************************************)
list_sort(seq, keys, reverse) ==
    LET n == Len(seq)
        Before(i, j) == \/ (IF reverse THEN keys[i] > keys[j] ELSE keys[i] < keys[j])
                        \/ (keys[i] = keys[j] /\ i < j)
        Rank(i) == Cardinality({j \in 1..n : Before(j, i)}) + 1
    IN [p \in 1..n |-> seq[CHOOSE i \in 1..n : Rank(i) = p]]

\* [x for x in seq if keep(x)] over the indices in keep
RECURSIVE Filter(_, _)
Filter(seq, keep) ==
    IF seq = <<>> THEN <<>>
    ELSE LET rest == Filter(Tail(seq), {i - 1 : i \in keep \ {1}})
         IN IF 1 \in keep THEN <<Head(seq)>> \o rest ELSE rest

(***************************************************************************)
(* GET /tasks/overdue                                                      *)
(***************************************************************************)
\* variant: the Done check is missing
overdue_match_counts_done(task, td) ==
    /\ task.due_date # NoDate
    /\ strptime(task.due_date) # ValueError
    /\ strptime(task.due_date) < ToOrdinal(td)

\* variant: a task due today is overdue already
overdue_match_includes_today(task, td) ==
    /\ task.status # "Done"
    /\ task.due_date # NoDate
    /\ strptime(task.due_date) # ValueError
    /\ strptime(task.due_date) <= ToOrdinal(td)

overdue_match(task, td) ==
    /\ task.status # "Done"
    /\ task.due_date # NoDate
    /\ strptime(task.due_date) # ValueError
    /\ strptime(task.due_date) < ToOrdinal(td)

\* variant: the day-of-month fields are subtracted instead of the dates
days_overdue_day_of_month(task, td) == td[3] - task.due_date[3]

days_overdue(task, td) == ToOrdinal(td) - strptime(task.due_date)

overdue_entry(task, td) ==
    [title |-> task.title, assignee |-> task.assignee_name,
     assignee_email |-> task.assignee_email, priority |-> task.priority,
     due_date |-> task.due_date, days_overdue |-> days_overdue(task, td),
     status |-> task.status, url |-> task.url]

\* variant: sorted ascending and then reversed, which reverses ties as well
sort_overdue_reversed_ascending(entries) ==
    LET asc == list_sort(entries, [i \in 1..Len(entries) |-> entries[i].days_overdue], FALSE)
    IN [i \in 1..Len(asc) |-> asc[Len(asc) + 1 - i]]

sort_overdue(entries) ==
    list_sort(entries, [i \in 1..Len(entries) |-> entries[i].days_overdue], TRUE)

get_overdue_tasks(ts, td) ==
    LET hit == Filter(ts, {i \in 1..Len(ts) : overdue_match(ts[i], td)})
        overdue_tasks == sort_overdue([i \in 1..Len(hit) |-> overdue_entry(hit[i], td)])
    IN [total_overdue |-> Len(overdue_tasks), tasks |-> overdue_tasks]

(***************************************************************************)
(* GET /tasks/at-risk                                                      *)
(***************************************************************************)
\* variant: the last day of the risk window is left out
at_risk_match_exclusive_window(task, td) ==
    /\ task.status # "Done"
    /\ task.due_date # NoDate
    /\ strptime(task.due_date) # ValueError
    /\ ToOrdinal(td) <= strptime(task.due_date)
    /\ strptime(task.due_date) < ToOrdinal(td) + RiskWindowDays

at_risk_match(task, td) ==
    /\ task.status # "Done"
    /\ task.due_date # NoDate
    /\ strptime(task.due_date) # ValueError
    /\ ToOrdinal(td) <= strptime(task.due_date)
    /\ strptime(task.due_date) <= ToOrdinal(td) + RiskWindowDays

days_until_due(task, td) == strptime(task.due_date) - ToOrdinal(td)

at_risk_entry(task, td) ==
    [title |-> task.title, assignee |-> task.assignee_name,
     assignee_email |-> task.assignee_email, priority |-> task.priority,
     due_date |-> task.due_date, days_until_due |-> days_until_due(task, td),
     status |-> task.status, url |-> task.url]

\* variant: the overdue sort call copied with its reverse=True
sort_at_risk_reverse(entries) ==
    list_sort(entries, [i \in 1..Len(entries) |-> entries[i].days_until_due], TRUE)

sort_at_risk(entries) ==
    list_sort(entries, [i \in 1..Len(entries) |-> entries[i].days_until_due], FALSE)

get_at_risk_tasks(ts, td) ==
    LET hit == Filter(ts, {i \in 1..Len(ts) : at_risk_match(ts[i], td)})
        at_risk_tasks == sort_at_risk([i \in 1..Len(hit) |-> at_risk_entry(hit[i], td)])
    IN [total_at_risk |-> Len(at_risk_tasks), tasks |-> at_risk_tasks]

(***************************************************************************)
(* GET /dashboard                                                          *)
(***************************************************************************)
Count(ts, P(_)) == Cardinality({i \in 1..Len(ts) : P(ts[i])})

is_completed(task) == task.status = "Done"

is_in_progress(task) == task.status = "In Progress"

is_todo(task) == task.status = "To Do"

\* variant: a task without a due date is taken to be due at once
is_overdue_missing_date_due(task, td) ==
    IF task.status # "Done"
    THEN LET due == IF task.due_date = NoDate THEN 0 ELSE strptime(task.due_date)
         IN IF due = ValueError THEN FALSE ELSE due < ToOrdinal(td)
    ELSE FALSE

is_overdue(task, td) ==
    IF task.due_date # NoDate /\ task.status # "Done"
    THEN LET due == strptime(task.due_date)
         IN IF due = ValueError THEN FALSE ELSE due < ToOrdinal(td)
    ELSE FALSE

\* round(x, 1) of the quotient num/den, ties to even as float formatting does
RoundTenths(num, den) ==
    LET q == (num * 1000) \div den
        r == (num * 1000) % den
    IN IF 2 * r > den THEN q + 1
       ELSE IF 2 * r < den THEN q
       ELSE IF q % 2 = 0 THEN q ELSE q + 1

\* f"{(completed/total_tasks*100):.1f}%" if total_tasks > 0 else "0%": the
\* text is given by its value in tenths of a percent and its decimal places.
\* variant: an empty task list is reported as fully complete
completion_rate_empty_is_full(completed, total_tasks) ==
    IF total_tasks > 0
    THEN [tenths |-> RoundTenths(completed, total_tasks), decimals |-> 1]
    ELSE [tenths |-> 1000, decimals |-> 1]

completion_rate(completed, total_tasks) ==
    IF total_tasks > 0
    THEN [tenths |-> RoundTenths(completed, total_tasks), decimals |-> 1]
    ELSE [tenths |-> 0, decimals |-> 0]

get_dashboard(ts, td) ==
    LET total_tasks == Len(ts)
        completed == Count(ts, is_completed)
        in_progress == Count(ts, is_in_progress)
        todo == Count(ts, is_todo)
        flagged == [i \in 1..Len(ts) |-> ts[i] @@ [is_overdue |-> is_overdue(ts[i], td)]]
        overdue_count == Cardinality({i \in 1..Len(ts) : flagged[i].is_overdue})
    IN [summary |-> [total_tasks |-> total_tasks, completed |-> completed,
                     in_progress |-> in_progress, todo |-> todo,
                     overdue |-> overdue_count,
                     completion_rate |-> completion_rate(completed, total_tasks)],
        tasks |-> flagged]

(***************************************************************************)
(* GET /reports/daily                                                      *)
(***************************************************************************)
\* assignee_counts[assignee] = assignee_counts.get(assignee, 0) + 1 on a dict
\* that keeps its keys in insertion order
dict_incr(d, k) ==
    IF \E i \in 1..Len(d) : d[i].assignee = k
    THEN [i \in 1..Len(d) |-> IF d[i].assignee = k
                              THEN [d[i] EXCEPT !.count = @ + 1] ELSE d[i]]
    ELSE Append(d, [assignee |-> k, count |-> 1])

\* variant: only tasks in progress count as active work
counts_as_active_in_progress_only(task) == task.status = "In Progress"

counts_as_active(task) == task.status # "Done"

RECURSIVE assignee_counts(_, _)
assignee_counts(ts, n) ==
    IF n = 0 THEN <<>>
    ELSE LET d == assignee_counts(ts, n - 1)
         IN IF counts_as_active(ts[n]) THEN dict_incr(d, ts[n].assignee_name) ELSE d

sort_workload(items) ==
    list_sort(items, [i \in 1..Len(items) |-> items[i].count], TRUE)

OverdueLine(e) == [text |-> "overdue", title |-> e.title, assignee |-> e.assignee,
                   days |-> e.days_overdue]

AtRiskLine(e) == [text |-> "due in", title |-> e.title, assignee |-> e.assignee,
                  days |-> e.days_until_due]

PlaceholderLine(t) == [text |-> t, title |-> "", assignee |-> "", days |-> 0]

generate_daily_report(dashboard, overdue, at_risk, td) ==
    LET counts == assignee_counts(dashboard.tasks, Len(dashboard.tasks))
        markdown ==
            [date |-> td,
             summary |-> [total_tasks |-> dashboard.summary.total_tasks,
                          completed |-> dashboard.summary.completed,
                          completion_rate |-> dashboard.summary.completion_rate,
                          in_progress |-> dashboard.summary.in_progress,
                          todo |-> dashboard.summary.todo,
                          overdue |-> dashboard.summary.overdue,
                          at_risk |-> Len(at_risk.tasks)],
             overdue_header |-> overdue.total_overdue,
             overdue_lines |->
                 IF overdue.tasks # <<>>
                 THEN [i \in 1..Len(overdue.tasks) |-> OverdueLine(overdue.tasks[i])]
                 ELSE <<PlaceholderLine("No overdue tasks!")>>,
             at_risk_header |-> at_risk.total_at_risk,
             at_risk_lines |->
                 IF at_risk.tasks # <<>>
                 THEN [i \in 1..Len(at_risk.tasks) |-> AtRiskLine(at_risk.tasks[i])]
                 ELSE <<PlaceholderLine("No at-risk tasks")>>,
             workload_lines |-> sort_workload(counts)]
    IN [body |-> [reported_date |-> td, markdown |-> markdown,
                  summary |-> dashboard.summary,
                  overdue_count |-> overdue.total_overdue,
                  at_risk_count |-> at_risk.total_at_risk],
        dashboard |-> dashboard, overdue |-> overdue, at_risk |-> at_risk,
        assignee_counts |-> counts]

(***************************************************************************)
(* POST /report (routes/chat.py), GroqAgent.summarize_tasks, Report        *)
(***************************************************************************)
\* str.lower() on the status labels
Lower(str) ==
    CASE str = "Done" -> "done"
      [] str = "Completed" -> "completed"
      [] str = "In Progress" -> "in progress"
      [] str = "To Do" -> "to do"
      [] str = "Todo" -> "todo"
      [] str = "Blocked" -> "blocked"
      [] OTHER -> str

report_is_completed(task) == Lower(task.status) \in {"done", "completed"}

\* variant: whatever is not completed is taken to be in progress
report_is_in_progress_not_completed(task) ==
    Lower(task.status) \notin {"done", "completed"}

report_is_in_progress(task) == Lower(task.status) = "in progress"

report_is_todo(task) == Lower(task.status) \in {"to do", "todo"}

\* variant: the error text is returned, as stream_summary does, instead of
\* the fixed sentence
summarize_tasks_error_text(ts, llm_ok) ==
    IF ts = <<>> THEN "No tasks found in the Notion database."
    ELSE IF llm_ok THEN "AI summary"
    ELSE "[Groq Error] connection failed"

summarize_tasks(ts, llm_ok) ==
    IF ts = <<>> THEN "No tasks found in the Notion database."
    ELSE IF llm_ok THEN "AI summary"
    ELSE "AI summarization failed. Please verify your Groq API credentials or network connection."

report_line(task) ==
    [title |-> task.title, status |-> task.status, assignee |-> task.assignee_name,
     due_date |-> task.due_date]

report_markdown(user, summary_text, ts) ==
    LET top == SubSeq(ts, 1, IF Len(ts) < TopN THEN Len(ts) ELSE TopN)
    IN [user |-> user, summary_text |-> summary_text,
        lines |-> [i \in 1..Len(top) |-> report_line(top[i])]]

report_summary(ts) ==
    [total_tasks |-> Len(ts),
     completed |-> Count(ts, report_is_completed),
     in_progress |-> Count(ts, report_is_in_progress),
     todo |-> Count(ts, report_is_todo)]

no_data_response(message) ==
    [messages |-> <<[role |-> "user", text |-> message],
                    [role |-> "assistant", text |-> "No tasks found in your Notion workspace. Please verify your database ID or API key."]>>,
     report_markdown |-> [user |-> "", summary_text |-> "No task data available.", lines |-> <<>>],
     summary |-> [total_tasks |-> 0, completed |-> 0, in_progress |-> 0, todo |-> 0]]

report_response(message, markdown, summary) ==
    [messages |-> <<[role |-> "user", text |-> message],
                    [role |-> "assistant", text |-> "ZenAI successfully generated your Notion project report."]>>,
     report_markdown |-> markdown,
     summary |-> summary]

\* Report row: the autoincrement id and the server-side now() of created_at
new_report(store, user, summary_text, markdown, summary, stamp) ==
    [id |-> Len(store) + 1, user |-> user, summary_text |-> summary_text,
     report_markdown |-> markdown, task_summary |-> summary, created_at |-> stamp]

LastStamp(store) == IF store = <<>> THEN 0 ELSE store[Len(store)].created_at

(***************************************************************************)
(* Specification                                                           *)
(***************************************************************************)
\* the summary generator, the websocket channel and the scheduler at rest
IdleStream == [pc |-> "idle"]

IdleWs == [pc |-> "idle"]

IdleSched == [pc |-> "idle"]

IdleMail == [pc |-> "idle"]

IdleDaily == [pc |-> "idle"]

Init ==
    /\ \E ts \in TaskLists : tasks = WithUrls(ts)
    /\ today \in Todays
    /\ resp = [op |-> "none"]
    /\ reports = <<>>
    /\ stream = IdleStream
    /\ ws = IdleWs
    /\ sched = IdleSched
    /\ mail = IdleMail
    /\ daily = IdleDaily

GetDashboard ==
    /\ resp' = [op |-> "dashboard", body |-> get_dashboard(tasks, today)]
    /\ UNCHANGED <<tasks, today, reports, stream, ws, sched, mail, daily>>

GetOverdueTasks ==
    /\ resp' = [op |-> "overdue", body |-> get_overdue_tasks(tasks, today)]
    /\ UNCHANGED <<tasks, today, reports, stream, ws, sched, mail, daily>>

GetAtRiskTasks ==
    /\ resp' = [op |-> "at_risk", body |-> get_at_risk_tasks(tasks, today)]
    /\ UNCHANGED <<tasks, today, reports, stream, ws, sched, mail, daily>>

\* The handler calls the three endpoints in turn and keeps their results in
\* the locals dashboard, overdue and at_risk.
GenerateDailyReport ==
    /\ resp' = [op |-> "daily"] @@
               generate_daily_report(get_dashboard(tasks, today),
                                     get_overdue_tasks(tasks, today),
                                     get_at_risk_tasks(tasks, today), today)
    /\ UNCHANGED <<tasks, today, reports, stream, ws, sched, mail, daily>>

\* raise HTTPException(status_code=500, detail=f"Report generation failed: {e}")
http_500(e) == [op |-> "report", status |-> 500, detail |-> e]

\* variant: the empty task list is not told apart; it is summarised,
\* rendered and stored like any other
GenerateReport_no_empty_check(user, message, env_ok, llm_ok, db_ok, stamp) ==
    /\ Len(reports) < MaxReports
    /\ IF ~env_ok
       THEN /\ resp' = http_500("key not found")
            /\ UNCHANGED reports
       ELSE LET summary_text == summarize_tasks(tasks, llm_ok)
                markdown == report_markdown(user, summary_text, tasks)
                summary == report_summary(tasks)
            IN IF db_ok
               THEN /\ reports' = Append(reports, new_report(reports, user, summary_text,
                                                              markdown, summary, stamp))
                    /\ resp' = [op |-> "report", status |-> 200,
                                body |-> report_response(message, markdown, summary)]
               ELSE /\ resp' = http_500("commit failed")
                    /\ UNCHANGED reports
    /\ UNCHANGED <<tasks, today, stream, ws, sched, mail, daily>>

\* env_ok: NotionIntegration() and GroqAgent() find their keys; llm_ok: the
\* completion call of summarize_tasks returns; db_ok: db.commit() succeeds.
\* Every exception raised in the handler body ends in the HTTP 500 of its
\* except clause.
GenerateReport(user, message, env_ok, llm_ok, db_ok, stamp) ==
    /\ Len(reports) < MaxReports
    /\ IF ~env_ok
       THEN /\ resp' = http_500("key not found")
            /\ UNCHANGED reports
       ELSE IF tasks = <<>>
       THEN /\ resp' = [op |-> "report", status |-> 200, body |-> no_data_response(message)]
            /\ UNCHANGED reports
       ELSE LET summary_text == summarize_tasks(tasks, llm_ok)
                markdown == report_markdown(user, summary_text, tasks)
                summary == report_summary(tasks)
            IN IF db_ok
               THEN /\ reports' = Append(reports, new_report(reports, user, summary_text,
                                                              markdown, summary, stamp))
                    /\ resp' = [op |-> "report", status |-> 200,
                                body |-> report_response(message, markdown, summary)]
               ELSE /\ resp' = http_500("commit failed")
                    /\ UNCHANGED reports
    /\ UNCHANGED <<tasks, today, stream, ws, sched, mail, daily>>

PostReport ==
    \E user \in Users, env_ok \in BOOLEAN, llm_ok \in BOOLEAN, db_ok \in BOOLEAN,
       stamp \in {LastStamp(reports), LastStamp(reports) + 1} :
        GenerateReport(user, "report please", env_ok, llm_ok, db_ok, stamp)

\* the orders of the rows that satisfy ORDER BY created_at DESC: rows with
\* equal created_at may come in either order, the query names no second key
RowOrders(n) ==
    {f \in [1..n -> 1..n] : \A i, j \in 1..n : i # j => f[i] # f[j]}

order_by_created_at_desc(store) ==
    {[i \in 1..Len(store) |-> store[f[i]]] :
        f \in {g \in RowOrders(Len(store)) :
                 \A i \in 1..(Len(store) - 1) :
                     store[g[i]].created_at >= store[g[i + 1]].created_at}}

\* routes/reports.py list_reports: db_ok is the query succeeding
ListReports(db_ok) ==
    /\ IF db_ok
       THEN \E rows \in order_by_created_at_desc(reports) :
                resp' = [op |-> "list", status |-> 200, body |-> rows]
       ELSE resp' = [op |-> "list", status |-> 500, detail |-> "Database error"]
    /\ UNCHANGED <<tasks, today, reports, stream, ws, sched, mail, daily>>

GetReports == \E db_ok \in BOOLEAN : ListReports(db_ok)

Next ==
    \/ GetDashboard
    \/ GetOverdueTasks
    \/ GetAtRiskTasks
    \/ GenerateDailyReport

Spec == Init /\ [][Next]_vars

\* The report route and the dashboard over the status labels of the source
InitReport ==
    /\ \E ts \in ReportTaskLists : tasks = WithUrls(ts)
    /\ today \in Todays
    /\ resp = [op |-> "none"]
    /\ reports = <<>>
    /\ stream = IdleStream
    /\ ws = IdleWs
    /\ sched = IdleSched
    /\ mail = IdleMail
    /\ daily = IdleDaily

NextReport ==
    \/ GetDashboard
    \/ PostReport

SpecReport == InitReport /\ [][NextReport]_vars

\* The report store: reports are generated and listed
InitStore ==
    /\ \E ts \in ReportTaskLists : Len(ts) <= 1 /\ tasks = WithUrls(ts)
    /\ today \in Todays
    /\ resp = [op |-> "none"]
    /\ reports = <<>>
    /\ stream = IdleStream
    /\ ws = IdleWs
    /\ sched = IdleSched
    /\ mail = IdleMail
    /\ daily = IdleDaily

NextStore ==
    \/ PostReport
    \/ GetReports

SpecStore == InitStore /\ [][NextStore]_vars

(***************************************************************************)
(* GroqAgent.stream_summary: a generator.  Each action is one resumption   *)
(* of the generator by its consumer together with what the upstream        *)
(* completion stream does next.                                            *)
(***************************************************************************)
MaxChunks == 3

Tokens == {"Two", "open"}

ErrorFragment == "[Stream Error] upstream failed"

NewStream == [pc |-> "start", out |-> <<>>, calls |-> 0, chunks |-> 0, failed |-> FALSE]

\* variant: after the error fragment the completion call is made again
stream_except_retry(st) ==
    [st EXCEPT !.pc = "start", !.out = Append(@, ErrorFragment), !.failed = TRUE]

\* except Exception as e: yield f"[Stream Error] {e}"
stream_except(st) ==
    [st EXCEPT !.pc = "in_except", !.out = Append(@, ErrorFragment), !.failed = TRUE]

\* token = chunk.choices[0].delta.content or ""; if token: yield token
stream_chunk(st, token) ==
    [st EXCEPT !.chunks = @ + 1,
               !.out = IF token # "" THEN Append(@, token) ELSE @]

StreamBegin ==
    /\ stream.pc = "start"
    /\ IF tasks = <<>>
       THEN stream' = [stream EXCEPT !.pc = "after_empty",
                                     !.out = Append(@, "No tasks found in Notion database.")]
       ELSE \E created \in BOOLEAN :
               LET called == [stream EXCEPT !.calls = @ + 1]
               IN stream' = IF created THEN [called EXCEPT !.pc = "streaming"]
                            ELSE stream_except(called)
    /\ UNCHANGED <<tasks, today, resp, reports, ws, sched, mail, daily>>

StreamChunk ==
    /\ stream.pc = "streaming"
    /\ stream.chunks < MaxChunks
    /\ \E token \in Tokens \cup {""} : stream' = stream_chunk(stream, token)
    /\ UNCHANGED <<tasks, today, resp, reports, ws, sched, mail, daily>>

StreamFail ==
    /\ stream.pc = "streaming"
    /\ stream' = stream_except(stream)
    /\ UNCHANGED <<tasks, today, resp, reports, ws, sched, mail, daily>>

StreamEnd ==
    /\ stream.pc = "streaming"
    /\ stream' = [stream EXCEPT !.pc = "done"]
    /\ UNCHANGED <<tasks, today, resp, reports, ws, sched, mail, daily>>

\* the generator is resumed after its last yield and returns
StreamReturn ==
    /\ stream.pc \in {"after_empty", "in_except"}
    /\ stream' = [stream EXCEPT !.pc = "done"]
    /\ UNCHANGED <<tasks, today, resp, reports, ws, sched, mail, daily>>

InitStream ==
    /\ \E ts \in ReportTaskLists : Len(ts) <= 1 /\ tasks = WithUrls(ts)
    /\ today \in Todays
    /\ resp = [op |-> "none"]
    /\ reports = <<>>
    /\ stream = NewStream
    /\ ws = IdleWs
    /\ sched = IdleSched
    /\ mail = IdleMail
    /\ daily = IdleDaily

NextStream ==
    \/ StreamBegin
    \/ StreamChunk
    \/ StreamFail
    \/ StreamEnd
    \/ StreamReturn

SpecStream == InitStream /\ [][NextStream]_vars

(***************************************************************************)
(* WS /ws/chat (routes/ws_chat.py) with its ConnectionManager.  A send on  *)
(* a connection the client has closed, like a receive, raises              *)
(* WebSocketDisconnect.                                                    *)
(***************************************************************************)
MaxRequests == 2

Conn == "ws1"

Text(t) == [prefix |-> "", text |-> t]

AckMessage == Text("Connected to ZenAI WebSocket server.")

EndMarker == Text("[END_STREAM]")

\* "ZenAI is generating your project summary...".split()
ResponseTokens == <<"ZenAI", "is", "generating", "your", "project", "summary...">>

\* what the client sends: a JSON object with or without "message", or text
\* that json.loads rejects
Requests == {[json |-> TRUE, message |-> "hi"], [json |-> TRUE, message |-> ""],
             [json |-> FALSE, message |-> ""]}

NewWs == [pc |-> "new", active |-> {}, sent |-> <<>>, open |-> TRUE, ix |-> 0,
          served |-> 0, msg |-> "", lost_at |-> "", sent_at_loss |-> 0]

manager_connect(w) == [w EXCEPT !.active = @ \cup {Conn}]

manager_send_personal(w, m) == [w EXCEPT !.sent = Append(@, m)]

manager_disconnect(w) == [w EXCEPT !.active = @ \ {Conn}]

\* the message the handler sends at its position
ws_message(w) ==
    CASE w.pc = "ack" -> AckMessage
      [] w.pc = "echo" -> [prefix |-> "You said: ", text |-> w.msg]
      [] w.pc = "tokens" -> Text(ResponseTokens[w.ix])
      [] w.pc = "end" -> EndMarker

\* variant: the end marker is sent inside the token loop, after every token
ws_advance_marker_in_loop(w) ==
    CASE w.pc = "ack" -> [w EXCEPT !.pc = "receive"]
      [] w.pc = "echo" -> [w EXCEPT !.pc = "tokens", !.ix = 1]
      [] w.pc = "tokens" -> [w EXCEPT !.pc = "end"]
      [] w.pc = "end" -> IF w.ix < Len(ResponseTokens)
                         THEN [w EXCEPT !.pc = "tokens", !.ix = @ + 1]
                         ELSE [w EXCEPT !.pc = "receive", !.ix = 0]

\* the position of the handler after a send that succeeded
ws_advance(w) ==
    CASE w.pc = "ack" -> [w EXCEPT !.pc = "receive"]
      [] w.pc = "echo" -> [w EXCEPT !.pc = "tokens", !.ix = 1]
      [] w.pc = "tokens" -> IF w.ix < Len(ResponseTokens)
                            THEN [w EXCEPT !.ix = @ + 1]
                            ELSE [w EXCEPT !.pc = "end"]
      [] w.pc = "end" -> [w EXCEPT !.pc = "receive", !.ix = 0]

\* variant: the disconnect is swallowed and the manager keeps the connection
ws_except_pass(w) == [w EXCEPT !.pc = "closed"]

\* except WebSocketDisconnect: manager.disconnect(websocket)
ws_except(w) == [manager_disconnect(w) EXCEPT !.pc = "closed"]

\* an exception that no clause of the handler catches
ws_uncaught(w) == [w EXCEPT !.pc = "crashed"]

WsConnect ==
    /\ ws.pc = "new"
    /\ ws' = [manager_connect(ws) EXCEPT !.pc = "ack"]
    /\ UNCHANGED <<tasks, today, resp, reports, stream, sched, mail, daily>>

WsSend ==
    /\ ws.pc \in {"ack", "echo", "tokens", "end"}
    /\ ws' = IF ws.open THEN ws_advance(manager_send_personal(ws, ws_message(ws)))
             ELSE IF ws.pc = "ack" THEN ws_uncaught(ws)
             ELSE ws_except(ws)
    /\ UNCHANGED <<tasks, today, resp, reports, stream, sched, mail, daily>>

WsReceive ==
    /\ ws.pc = "receive"
    /\ IF ~ws.open
       THEN ws' = ws_except(ws)
       ELSE /\ ws.served < MaxRequests
            /\ \E data \in Requests :
                  ws' = IF data.json
                        THEN [ws EXCEPT !.pc = "echo", !.msg = data.message,
                                        !.served = @ + 1]
                        ELSE ws_uncaught([ws EXCEPT !.served = @ + 1])
    /\ UNCHANGED <<tasks, today, resp, reports, stream, sched, mail, daily>>

\* the client goes away; lost_at and sent_at_loss record where the handler
\* stood and what had been sent
ClientDisconnect ==
    /\ ws.open
    /\ ws.pc \in {"ack", "receive", "echo", "tokens", "end"}
    /\ ws' = [ws EXCEPT !.open = FALSE, !.lost_at = ws.pc, !.sent_at_loss = Len(ws.sent)]
    /\ UNCHANGED <<tasks, today, resp, reports, stream, sched, mail, daily>>

InitWs ==
    /\ tasks = <<>>
    /\ today \in Todays
    /\ resp = [op |-> "none"]
    /\ reports = <<>>
    /\ stream = IdleStream
    /\ ws = NewWs
    /\ sched = IdleSched
    /\ mail = IdleMail
    /\ daily = IdleDaily

NextWs ==
    \/ WsConnect
    \/ WsSend
    \/ WsReceive
    \/ ClientDisconnect

SpecWs == InitWs /\ [][NextWs]_vars

(***************************************************************************)
(* core/scheduler.py: the interval job of AsyncIOScheduler.  add_job names *)
(* no max_instances, so the job runs with the scheduler's default of one   *)
(* instance: a run time that comes due while an instance is running is     *)
(* skipped.  run_scheduled_report has no await, so on the event loop the   *)
(* scheduler wakes only between runs; the model lets it wake between the   *)
(* steps of a run as well, which includes those schedules.                 *)
(***************************************************************************)
MaxTicks == 3

max_instances == 1

NewSched == [pc |-> "started", due |-> 0, ticks |-> 0, running |-> <<>>,
             started |-> 0, skipped |-> 0, finished |-> 0]

\* variant: the job is admitted however many instances are running
job_admitted_unlimited(in_flight) == TRUE

job_admitted(in_flight) == in_flight < max_instances

RemoveAt(seq, i) == SubSeq(seq, 1, i - 1) \o SubSeq(seq, i + 1, Len(seq))

\* the interval elapses: one more run time is due
Tick ==
    /\ sched.pc = "started"
    /\ sched.ticks < MaxTicks
    /\ sched' = [sched EXCEPT !.ticks = @ + 1, !.due = @ + 1]
    /\ UNCHANGED <<tasks, today, resp, reports, stream, ws, mail, daily>>

\* the scheduler wakes: the due run times are coalesced into one submission,
\* which starts run_scheduled_report or is skipped
Dispatch ==
    /\ sched.pc = "started"
    /\ sched.due > 0
    /\ sched' = IF job_admitted(Len(sched.running))
                THEN [sched EXCEPT !.due = 0, !.running = Append(@, "fetch"),
                                   !.started = @ + 1]
                ELSE [sched EXCEPT !.due = 0, !.skipped = @ + 1]
    /\ UNCHANGED <<tasks, today, resp, reports, stream, ws, mail, daily>>

\* NotionIntegration(), GroqAgent(), query_all_tasks(): an exception is
\* printed by the except clause, an empty list ends the run
RunFetch(i, fetch_ok) ==
    /\ sched.pc = "started"
    /\ i \in 1..Len(sched.running)
    /\ sched.running[i] = "fetch"
    /\ sched' = IF fetch_ok /\ tasks # <<>>
                THEN [sched EXCEPT !.running[i] = "summarize"]
                ELSE [sched EXCEPT !.running = RemoveAt(@, i), !.finished = @ + 1]
    /\ UNCHANGED <<tasks, today, resp, reports, stream, ws, mail, daily>>

\* groq.summarize_tasks(tasks) and the prints
RunSummarize(i) ==
    /\ sched.pc = "started"
    /\ i \in 1..Len(sched.running)
    /\ sched.running[i] = "summarize"
    /\ sched' = [sched EXCEPT !.running = RemoveAt(@, i), !.finished = @ + 1]
    /\ UNCHANGED <<tasks, today, resp, reports, stream, ws, mail, daily>>

RunStep ==
    \E i \in 1..Len(sched.running) :
        \/ \E fetch_ok \in BOOLEAN : RunFetch(i, fetch_ok)
        \/ RunSummarize(i)

InitSched ==
    /\ \E ts \in ReportTaskLists : Len(ts) <= 1 /\ tasks = WithUrls(ts)
    /\ today \in Todays
    /\ resp = [op |-> "none"]
    /\ reports = <<>>
    /\ stream = IdleStream
    /\ ws = IdleWs
    /\ sched = NewSched
    /\ mail = IdleMail
    /\ daily = IdleDaily

NextSched ==
    \/ Tick
    \/ Dispatch
    \/ RunStep

SpecSched == InitSched /\ [][NextSched]_vars

(***************************************************************************)
(* POST /notifications/send-overdue-alerts and send-at-risk-reminders.     *)
(* mail holds the process configuration (whether EmailService() could be   *)
(* built, the NOTIFICATION_EMAIL variable) and outbox, the calls the last  *)
(* request made to the email service.                                      *)
(***************************************************************************)
MaxAlerts == 2

None == "None"

FallbackEmails == {"", "lead@zen.ai"}

Cara == [name |-> "Cara", email |-> "cara@zen.ai"]

\* overdue and at-risk tasks of an assignee with and without a contact
NotifyPool ==
    {RawTask("To Do", due, who) :
        due \in {<<2024, 2, 27>>, <<2024, 3, 2>>}, who \in {Unassigned, Cara}}
    \cup {RawTask("Done", <<2024, 2, 27>>, Cara),
          RawTask("To Do", <<2024, 2, 26>>, Cara)}

NotifyTaskLists == UNION {[1..n -> NotifyPool] : n \in 0..MaxAlerts}

SendOutcomes == {"sent", "refused", "raise"}

\* variant: the configured default is preferred over the assignee's contact
target_email_fallback_first(task, fallback_email) ==
    IF fallback_email # "" THEN fallback_email ELSE task.assignee_email

\* task.get('assignee_email') or fallback_email
target_email(task, fallback_email) ==
    IF task.assignee_email # "" THEN task.assignee_email ELSE fallback_email

\* the call email_service.send_overdue_alert / send_deadline_reminder
mail_call(kind, task, to) ==
    [kind |-> kind, task_url |-> task.url, assignee |-> task.assignee, to_email |-> to]

alert_result(task, fallback_email, success) ==
    IF target_email(task, fallback_email) # ""
    THEN [task |-> task.title, assignee |-> task.assignee,
          email |-> target_email(task, fallback_email),
          email_source |-> IF task.assignee_email # "" THEN "notion" ELSE "fallback",
          sent |-> success]
    ELSE [task |-> task.title, assignee |-> task.assignee, email |-> None,
          sent |-> FALSE, error |-> "No email available"]

\* the loop over the listed tasks up to and including the first call of the
\* email service that raises; outcome[i] is what the service does with the
\* call for task i, if one is made
RECURSIVE alert_loop(_, _, _, _, _, _)
alert_loop(kind, listed, fallback_email, outcome, i, acc) ==
    IF i > Len(listed) THEN acc
    ELSE LET task == listed[i]
             to == target_email(task, fallback_email)
         IN IF to = ""
            THEN alert_loop(kind, listed, fallback_email, outcome, i + 1,
                            [acc EXCEPT !.results =
                                Append(@, alert_result(task, fallback_email, FALSE))])
            ELSE IF outcome[i] = "raise"
            THEN [acc EXCEPT !.calls = Append(@, mail_call(kind, task, to)),
                             !.raised = TRUE]
            ELSE alert_loop(kind, listed, fallback_email, outcome, i + 1,
                            [acc EXCEPT !.calls = Append(@, mail_call(kind, task, to)),
                                        !.results = Append(@,
                                            alert_result(task, fallback_email,
                                                         outcome[i] = "sent"))])

\* variant: only the results without an address count as failed
alerts_body_failed_counts_errors(kind, results) ==
    LET counts == [successful |-> Cardinality({i \in 1..Len(results) : results[i].sent}),
                   failed |-> Cardinality({i \in 1..Len(results) : results[i].email = None}),
                   results |-> results]
    IN IF kind = "overdue_alert"
       THEN counts @@ [total_alerts |-> Len(results)]
       ELSE counts @@ [total_reminders |-> Len(results)]

alerts_body(kind, results) ==
    LET counts == [successful |-> Cardinality({i \in 1..Len(results) : results[i].sent}),
                   failed |-> Cardinality({i \in 1..Len(results) : ~results[i].sent}),
                   results |-> results]
    IN IF kind = "overdue_alert"
       THEN counts @@ [total_alerts |-> Len(results)]
       ELSE counts @@ [total_reminders |-> Len(results)]

\* one request of either endpoint: listed is the tasks of get_overdue_tasks()
\* or get_at_risk_tasks(); source_ok is the task source answering
SendAlerts(kind, listed, source_ok, outcome) ==
    /\ mail.pc = "ready"
    /\ IF ~mail.service
       THEN /\ resp' = [op |-> kind, status |-> 503, detail |-> "Email service not configured"]
            /\ mail' = [mail EXCEPT !.outbox = <<>>]
       ELSE IF ~source_ok
       THEN /\ resp' = [op |-> kind, status |-> 500, detail |-> "Error"]
            /\ mail' = [mail EXCEPT !.outbox = <<>>]
       ELSE LET run == alert_loop(kind, listed, mail.fallback_email, outcome, 1,
                                  [calls |-> <<>>, results |-> <<>>, raised |-> FALSE])
            IN /\ mail' = [mail EXCEPT !.outbox = run.calls]
               /\ resp' = IF run.raised
                          THEN [op |-> kind, status |-> 500, detail |-> "Error"]
                          ELSE [op |-> kind, status |-> 200,
                                body |-> alerts_body(kind, run.results)]
    /\ UNCHANGED <<tasks, today, reports, stream, ws, sched, daily>>

SendOverdueAlerts ==
    \E source_ok \in BOOLEAN, outcome \in [1..Len(tasks) -> SendOutcomes] :
        SendAlerts("overdue_alert", get_overdue_tasks(tasks, today).tasks, source_ok, outcome)

SendAtRiskReminders ==
    \E source_ok \in BOOLEAN, outcome \in [1..Len(tasks) -> SendOutcomes] :
        SendAlerts("deadline_reminder", get_at_risk_tasks(tasks, today).tasks,
                   source_ok, outcome)

InitNotify ==
    /\ \E ts \in NotifyTaskLists : tasks = WithUrls(ts)
    /\ today \in Todays
    /\ resp = [op |-> "none"]
    /\ reports = <<>>
    /\ stream = IdleStream
    /\ ws = IdleWs
    /\ sched = IdleSched
    /\ daily = IdleDaily
    /\ \E service \in BOOLEAN, fallback_email \in FallbackEmails :
          mail = [pc |-> "ready", service |-> service,
                  fallback_email |-> fallback_email, outbox |-> <<>>]

NextNotify ==
    \/ SendOverdueAlerts
    \/ SendAtRiskReminders

SpecNotify == InitNotify /\ [][NextNotify]_vars

(***************************************************************************)
(* GET /reports/daily as the three calls it makes.  get_dashboard,         *)
(* get_overdue_tasks and get_at_risk_tasks each fetch the task list from   *)
(* the source themselves; the source is an external database that other    *)
(* clients edit, so it may change between two of the fetches.  daily holds *)
(* the handler's position and its locals.                                  *)
(***************************************************************************)
MaxEdits == 2

DailyPool ==
    {RawTask(st, due, Unassigned) :
        st \in {"To Do", "Done"}, due \in {<<2024, 2, 27>>, <<2024, 3, 2>>}}

DailyTaskLists == UNION {[1..n -> DailyPool] : n \in 1..2}

NewDaily == [pc |-> "ready", edits |-> 0]

\* dashboard = await get_dashboard()
DailyDashboard ==
    /\ daily.pc = "ready"
    /\ daily' = [pc |-> "dashboard", edits |-> daily.edits,
                 dashboard |-> get_dashboard(tasks, today)]
    /\ UNCHANGED <<tasks, today, resp, reports, stream, ws, sched, mail>>

\* overdue = await get_overdue_tasks()
DailyOverdue ==
    /\ daily.pc = "dashboard"
    /\ daily' = [pc |-> "overdue", edits |-> daily.edits, dashboard |-> daily.dashboard,
                 overdue |-> get_overdue_tasks(tasks, today)]
    /\ UNCHANGED <<tasks, today, resp, reports, stream, ws, sched, mail>>

\* at_risk = await get_at_risk_tasks(), then the report is rendered from the
\* three locals and returned
DailyAtRiskAndRender ==
    /\ daily.pc = "overdue"
    /\ resp' = [op |-> "daily"] @@
               generate_daily_report(daily.dashboard, daily.overdue,
                                     get_at_risk_tasks(tasks, today), today)
    /\ daily' = [pc |-> "ready", edits |-> daily.edits]
    /\ UNCHANGED <<tasks, today, reports, stream, ws, sched, mail>>

\* another client of the task database closes a task or reopens one
SourceEdit ==
    /\ daily.pc # "idle"
    /\ daily.edits < MaxEdits
    /\ \E i \in 1..Len(tasks), st \in {"To Do", "Done"} :
          /\ tasks[i].status # st
          /\ tasks' = [tasks EXCEPT ![i].status = st]
    /\ daily' = [daily EXCEPT !.edits = @ + 1]
    /\ UNCHANGED <<today, resp, reports, stream, ws, sched, mail>>

InitDaily ==
    /\ \E ts \in DailyTaskLists : tasks = WithUrls(ts)
    /\ today \in Todays
    /\ resp = [op |-> "none"]
    /\ reports = <<>>
    /\ stream = IdleStream
    /\ ws = IdleWs
    /\ sched = IdleSched
    /\ mail = IdleMail
    /\ daily = NewDaily

NextDaily ==
    \/ DailyDashboard
    \/ DailyOverdue
    \/ DailyAtRiskAndRender
    \/ SourceEdit

SpecDaily == InitDaily /\ [][NextDaily]_vars

(***************************************************************************)
(* routes/reports.py email_report.  mail.pdfs counts the generate_pdf      *)
(* calls of the last request and mail.outbox holds the messages it handed  *)
(* to send_email_with_attachment.                                          *)
(***************************************************************************)
ReportIds == 1..(MaxReports + 1)

Recipients == {"boss@zen.ai"}

NewMailer == [pc |-> "mailer", pdfs |-> 0, outbox |-> <<>>]

\* result.scalar_one_or_none(): the row as a sequence of one, <<>> for None
scalar_one_or_none(store, report_id) ==
    LET hit == {i \in 1..Len(store) : store[i].id = report_id}
    IN IF hit = {} THEN <<>> ELSE <<store[CHOOSE i \in hit : TRUE]>>

\* utils/pdf_generator.py: the title and the lines of the content, cut to the
\* width of the page
generate_pdf(report_title, report_content) ==
    [title |-> report_title, content |-> report_content]

email_500(detail) == [op |-> "email", status |-> 500, detail |-> detail]

\* db_ok: the select succeeds; smtp_ok: aiosmtplib.send succeeds
\* (send_email_with_attachment returns True).  The HTTPExceptions raised in
\* the try block are Exceptions and end in the last except clause.
EmailReport(report_id, recipient, db_ok, smtp_ok) ==
    /\ mail.pc = "mailer"
    /\ IF ~db_ok
       THEN /\ resp' = email_500("Database error")
            /\ mail' = [mail EXCEPT !.pdfs = 0, !.outbox = <<>>]
       ELSE LET row == scalar_one_or_none(reports, report_id)
                report == row[1]
            IN IF row = <<>>
               THEN /\ resp' = email_500("Error sending email: 404: Report not found")
                    /\ mail' = [mail EXCEPT !.pdfs = 0, !.outbox = <<>>]
               ELSE /\ mail' = [mail EXCEPT
                                  !.pdfs = 1,
                                  !.outbox = <<[to_email |-> recipient,
                                                user |-> report.user,
                                                pdf_bytes |-> generate_pdf("ZenAI Project Report",
                                                                           report.report_markdown),
                                                report_id |-> report.id]>>]
                    /\ resp' = IF smtp_ok
                               THEN [op |-> "email", status |-> 200,
                                     body |-> [status |-> "Email sent successfully",
                                               report_id |-> report.id,
                                               recipient |-> recipient]]
                               ELSE email_500("Error sending email: 500: Failed to send email")
    /\ UNCHANGED <<tasks, today, reports, stream, ws, sched, daily>>

PostEmailReport ==
    \E report_id \in ReportIds, recipient \in Recipients,
       db_ok \in BOOLEAN, smtp_ok \in BOOLEAN :
        EmailReport(report_id, recipient, db_ok, smtp_ok)

InitEmail ==
    /\ \E ts \in ReportTaskLists : Len(ts) = 1 /\ tasks = WithUrls(ts)
    /\ today \in Todays
    /\ resp = [op |-> "none"]
    /\ reports = <<>>
    /\ stream = IdleStream
    /\ ws = IdleWs
    /\ sched = IdleSched
    /\ mail = NewMailer
    /\ daily = IdleDaily

NextEmail ==
    \/ PostReport
    \/ PostEmailReport

SpecEmail == InitEmail /\ [][NextEmail]_vars

(***************************************************************************)
(* POST /notifications/send-daily-report.  mail is as for the alerts: the  *)
(* configuration and the calls of email_service.send_daily_report made by  *)
(* the last request.                                                       *)
(***************************************************************************)
DigestFallbacks == {"", "team@zen.ai"}

\* the query parameter email; "" is the parameter left out
DigestEmails == {"", "pm@zen.ai"}

DigestPool == {RawTask("To Do", NoDate, who) : who \in {Unassigned, Asha, Ben}}

DigestTaskLists == UNION {[1..n -> DigestPool] : n \in 0..MaxAlerts}

\* the set of (assignee_name, assignee_email) tuples, with ("Team Lead",
\* NOTIFICATION_EMAIL) added when the variable is set
unique_emails(dashboard_tasks, notification_email) ==
    {<<dashboard_tasks[i].assignee_name, dashboard_tasks[i].assignee_email>> :
        i \in {j \in 1..Len(dashboard_tasks) : dashboard_tasks[j].assignee_email # ""}}
    \cup (IF notification_email # "" THEN {<<"Team Lead", notification_email>>} ELSE {})

\* the orders in which a for loop may run through a set
IterationOrders(S) ==
    {f \in [1..Cardinality(S) -> S] :
        \A i, j \in 1..Cardinality(S) : i # j => f[i] # f[j]}

daily_report_markdown ==
    generate_daily_report(get_dashboard(tasks, today), get_overdue_tasks(tasks, today),
                          get_at_risk_tasks(tasks, today), today).body.markdown

\* the calls and the results of the sends to the recipients rcpts, up to and
\* including the first call that raises
RECURSIVE digest_loop(_, _, _, _)
digest_loop(rcpts, outcome, i, acc) ==
    IF i > Len(rcpts) THEN acc
    ELSE LET call == [to_email |-> rcpts[i].email, report_markdown |-> daily_report_markdown]
         IN IF outcome[i] = "raise"
            THEN [acc EXCEPT !.calls = Append(@, call), !.raised = TRUE]
            ELSE digest_loop(rcpts, outcome, i + 1,
                             [acc EXCEPT !.calls = Append(@, call),
                                         !.results = Append(@, rcpts[i] @@
                                                      [sent |-> outcome[i] = "sent"])])

digest_body(results) ==
    [total_sent |-> Len(results),
     successful |-> Cardinality({i \in 1..Len(results) : results[i].sent}),
     failed |-> Cardinality({i \in 1..Len(results) : ~results[i].sent}),
     results |-> results]

SendDailyReportEmail(email, outcome) ==
    /\ mail.pc = "ready"
    /\ IF ~mail.service
       THEN /\ resp' = [op |-> "daily_email", status |-> 503,
                        detail |-> "Email service not configured"]
            /\ mail' = [mail EXCEPT !.outbox = <<>>]
       ELSE \E order \in IterationOrders(unique_emails(get_dashboard(tasks, today).tasks,
                                                       mail.fallback_email)) :
               LET rcpts == IF email # ""
                            THEN <<[email |-> email]>>
                            ELSE [i \in 1..Len(order) |->
                                     [assignee |-> order[i][1], email |-> order[i][2]]]
                   run == digest_loop(rcpts, outcome, 1,
                                      [calls |-> <<>>, results |-> <<>>, raised |-> FALSE])
               IN /\ mail' = [mail EXCEPT !.outbox = run.calls]
                  /\ resp' = IF run.raised
                             THEN [op |-> "daily_email", status |-> 500, detail |-> "Error"]
                             ELSE [op |-> "daily_email", status |-> 200,
                                   body |-> digest_body(run.results)]
    /\ UNCHANGED <<tasks, today, reports, stream, ws, sched, daily>>

PostDailyReportEmail ==
    \E email \in DigestEmails, outcome \in [1..Len(tasks) + 1 -> SendOutcomes] :
        SendDailyReportEmail(email, outcome)

InitDigest ==
    /\ \E ts \in DigestTaskLists : tasks = WithUrls(ts)
    /\ today \in Todays
    /\ resp = [op |-> "none"]
    /\ reports = <<>>
    /\ stream = IdleStream
    /\ ws = IdleWs
    /\ sched = IdleSched
    /\ daily = IdleDaily
    /\ \E service \in BOOLEAN, fallback_email \in DigestFallbacks :
          mail = [pc |-> "ready", service |-> service,
                  fallback_email |-> fallback_email, outbox |-> <<>>]

NextDigest == PostDailyReportEmail

SpecDigest == InitDigest /\ [][NextDigest]_vars

TypeOK == resp.op \in {"none", "dashboard", "overdue", "at_risk", "daily", "report", "list"}

(***************************************************************************)
(* Reference calendar for the properties: the consecutive days from        *)
(* 2024-02-25 to 2024-03-05, written out.  A due string denotes a day iff  *)
(* it is on the calendar, and the distance between two days is the         *)
(* difference of their positions.                                          *)
(***************************************************************************)
Calendar ==
    << <<2024, 2, 25>>, <<2024, 2, 26>>, <<2024, 2, 27>>, <<2024, 2, 28>>,
       <<2024, 2, 29>>, <<2024, 3, 1>>, <<2024, 3, 2>>, <<2024, 3, 3>>,
       <<2024, 3, 4>>, <<2024, 3, 5>> >>

OnCalendar(s) == \E i \in 1..Len(Calendar) : Calendar[i] = s

DayNo(s) == CHOOSE i \in 1..Len(Calendar) : Calendar[i] = s

HasDue(task) == task.due_date # NoDate /\ OnCalendar(task.due_date)

\* due date minus today in whole days, for a task with a due date
DaysLeft(task) == DayNo(task.due_date) - DayNo(today)

EntryUrls(body) == {body.tasks[i].url : i \in 1..Len(body.tasks)}

TaskOf(url) == tasks[CHOOSE i \in 1..Len(tasks) : tasks[i].url = url]

PosOf(url) == CHOOSE i \in 1..Len(tasks) : tasks[i].url = url

TaskSet == {tasks[i] : i \in 1..Len(tasks)}

FlaggedUrls(body) ==
    {body.tasks[i].url : i \in {j \in 1..Len(body.tasks) : body.tasks[j].is_overdue}}

\* the overdue list, the at-risk list and the dashboard of the response, when
\* the request served produces them
HasOverdue == resp.op \in {"overdue", "daily"}

HasAtRisk == resp.op \in {"at_risk", "daily"}

HasDashboard == resp.op \in {"dashboard", "daily"}

OverdueOf == IF resp.op = "daily" THEN resp.overdue ELSE resp.body

AtRiskOf == IF resp.op = "daily" THEN resp.at_risk ELSE resp.body

DashboardOf == IF resp.op = "daily" THEN resp.dashboard ELSE resp.body

\* C1: a task whose status is Done is in neither the overdue list nor the
\* at-risk list and is not flagged is_overdue by the dashboard, whatever its
\* due date is.
C1_DoneNeverClassified ==
    \A t \in TaskSet :
        t.status = "Done" =>
            /\ HasOverdue => t.url \notin EntryUrls(OverdueOf)
            /\ HasAtRisk => t.url \notin EntryUrls(AtRiskOf)
            /\ HasDashboard => t.url \notin FlaggedUrls(DashboardOf)

C1_Witness ==
    /\ resp.op = "overdue"
    /\ \E t \in TaskSet : t.status = "Done" /\ HasDue(t) /\ DaysLeft(t) < 0
    /\ \E t \in TaskSet : t.status # "Done" /\ t.url \in EntryUrls(resp.body)

\* C2: a task with no due date is in neither the overdue list nor the at-risk
\* list, is not flagged by the dashboard, and the dashboard overdue count
\* counts exactly the flagged tasks.
C2_NoDueDateNeverClassified ==
    /\ \A t \in TaskSet :
          t.due_date = NoDate =>
              /\ HasOverdue => t.url \notin EntryUrls(OverdueOf)
              /\ HasAtRisk => t.url \notin EntryUrls(AtRiskOf)
              /\ HasDashboard => t.url \notin FlaggedUrls(DashboardOf)
    /\ HasDashboard =>
          DashboardOf.summary.overdue = Cardinality(FlaggedUrls(DashboardOf))

C2_Witness ==
    /\ resp.op = "dashboard"
    /\ \E t \in TaskSet : t.due_date = NoDate /\ t.status # "Done"
    /\ resp.body.summary.overdue > 0

\* C3: for one reference date the overdue list and the at-risk list share no
\* task, and a task that is not Done and is due exactly today is at-risk with
\* days_until_due = 0 and is not overdue.
C3_OverdueAtRiskDisjoint ==
    /\ resp.op = "daily" => EntryUrls(resp.overdue) \cap EntryUrls(resp.at_risk) = {}
    /\ \A t \in TaskSet :
          (t.status # "Done" /\ t.due_date = today) =>
              /\ HasOverdue => t.url \notin EntryUrls(OverdueOf)
              /\ HasAtRisk =>
                    \E i \in 1..Len(AtRiskOf.tasks) :
                        /\ AtRiskOf.tasks[i].url = t.url
                        /\ AtRiskOf.tasks[i].days_until_due = 0

C3_Witness ==
    /\ resp.op = "daily"
    /\ \E t \in TaskSet : t.status # "Done" /\ t.due_date = today
    /\ resp.overdue.tasks # <<>>
    /\ resp.at_risk.tasks # <<>>

\* C4: a task is in the overdue result iff its status is not Done, its due
\* date is present and parseable and the due date is strictly before today;
\* it is listed once, and days_overdue is today minus the due date in whole
\* days, which is greater than 0.
C4_OverdueIff ==
    HasOverdue =>
        /\ \A t \in TaskSet :
              (t.url \in EntryUrls(OverdueOf))
                  <=> (t.status # "Done" /\ HasDue(t) /\ DaysLeft(t) < 0)
        /\ EntryUrls(OverdueOf) \subseteq {t.url : t \in TaskSet}
        /\ Cardinality(EntryUrls(OverdueOf)) = Len(OverdueOf.tasks)
        /\ \A i \in 1..Len(OverdueOf.tasks) :
              /\ OverdueOf.tasks[i].days_overdue = 0 - DaysLeft(TaskOf(OverdueOf.tasks[i].url))
              /\ OverdueOf.tasks[i].days_overdue > 0

C4_Witness ==
    /\ resp.op = "overdue"
    /\ \E i \in 1..Len(resp.body.tasks) : resp.body.tasks[i].days_overdue = 3
    /\ \E t \in TaskSet : t.status # "Done" /\ HasDue(t) /\ DaysLeft(t) >= 0
    /\ \E t \in TaskSet : t.due_date # NoDate /\ ~OnCalendar(t.due_date)

\* C5: a task is in the at-risk result iff its status is not Done, its due
\* date is present and parseable and today <= due date <= today + 2; it is
\* listed once, and days_until_due is the due date minus today, in [0, 2].
C5_AtRiskIff ==
    HasAtRisk =>
        /\ \A t \in TaskSet :
              (t.url \in EntryUrls(AtRiskOf))
                  <=> (/\ t.status # "Done"
                       /\ HasDue(t)
                       /\ 0 <= DaysLeft(t)
                       /\ DaysLeft(t) <= 2)
        /\ EntryUrls(AtRiskOf) \subseteq {t.url : t \in TaskSet}
        /\ Cardinality(EntryUrls(AtRiskOf)) = Len(AtRiskOf.tasks)
        /\ \A i \in 1..Len(AtRiskOf.tasks) :
              /\ AtRiskOf.tasks[i].days_until_due = DaysLeft(TaskOf(AtRiskOf.tasks[i].url))
              /\ AtRiskOf.tasks[i].days_until_due \in 0..2

C5_Witness ==
    /\ resp.op = "at_risk"
    /\ \E i \in 1..Len(resp.body.tasks) : resp.body.tasks[i].days_until_due = 2
    /\ \E i \in 1..Len(resp.body.tasks) : resp.body.tasks[i].days_until_due = 0
    /\ \E t \in TaskSet : t.status # "Done" /\ HasDue(t) /\ DaysLeft(t) < 0

\* C6: the overdue result is ordered by days_overdue descending, and two
\* entries with equal days_overdue are in the order of the input task list.
C6_OverdueSortedStable ==
    HasOverdue =>
        \A i, j \in 1..Len(OverdueOf.tasks) :
            i < j =>
                /\ OverdueOf.tasks[i].days_overdue >= OverdueOf.tasks[j].days_overdue
                /\ OverdueOf.tasks[i].days_overdue = OverdueOf.tasks[j].days_overdue
                       => PosOf(OverdueOf.tasks[i].url) < PosOf(OverdueOf.tasks[j].url)

C6_Witness ==
    /\ resp.op = "overdue"
    /\ \E i, j \in 1..Len(resp.body.tasks) :
          /\ i < j
          /\ resp.body.tasks[i].days_overdue = resp.body.tasks[j].days_overdue
    /\ \E i, j \in 1..Len(resp.body.tasks) :
          /\ i < j
          /\ PosOf(resp.body.tasks[i].url) > PosOf(resp.body.tasks[j].url)

\* C7: the at-risk result is ordered by days_until_due ascending, and two
\* entries with equal days_until_due are in the order of the input task list.
C7_AtRiskSortedStable ==
    HasAtRisk =>
        \A i, j \in 1..Len(AtRiskOf.tasks) :
            i < j =>
                /\ AtRiskOf.tasks[i].days_until_due <= AtRiskOf.tasks[j].days_until_due
                /\ AtRiskOf.tasks[i].days_until_due = AtRiskOf.tasks[j].days_until_due
                       => PosOf(AtRiskOf.tasks[i].url) < PosOf(AtRiskOf.tasks[j].url)

C7_Witness ==
    /\ resp.op = "at_risk"
    /\ \E i, j \in 1..Len(resp.body.tasks) :
          /\ i < j
          /\ resp.body.tasks[i].days_until_due = resp.body.tasks[j].days_until_due
    /\ \E i, j \in 1..Len(resp.body.tasks) :
          /\ i < j
          /\ PosOf(resp.body.tasks[i].url) > PosOf(resp.body.tasks[j].url)

\* C8: the completion rate is between 0 and 100 percent, the completed count
\* never exceeds the total, and for an empty task list the rate is the text
\* "0%" (no division takes place).
C8_CompletionRateBounded ==
    HasDashboard =>
        LET sm == DashboardOf.summary
        IN /\ sm.total_tasks = Len(tasks)
           /\ sm.completed \in 0..sm.total_tasks
           /\ sm.completion_rate.tenths \in 0..1000
           /\ sm.total_tasks = 0 => sm.completion_rate = [tenths |-> 0, decimals |-> 0]

C8_Witness ==
    /\ resp.op = "dashboard"
    /\ tasks = <<>>
    /\ resp.body.summary.completion_rate.tenths = 0

AssigneeEntries(name) ==
    {i \in 1..Len(resp.assignee_counts) : resp.assignee_counts[i].assignee = name}

ActiveTasksOf(name) ==
    {i \in 1..Len(tasks) : tasks[i].assignee_name = name /\ tasks[i].status # "Done"}

RECURSIVE SumCounts(_)
SumCounts(d) == IF d = <<>> THEN 0 ELSE Head(d).count + SumCounts(Tail(d))

\* C10: in the workload map of the daily report every assignee name, also
\* "Unassigned", is mapped to the number of its tasks that are not Done; a
\* name without such a task has no entry, and the counts add up to the total
\* minus the completed count.
C10_WorkloadCounts ==
    resp.op = "daily" =>
        /\ \A name \in {"Unassigned"} \cup {t.assignee_name : t \in TaskSet} :
              IF ActiveTasksOf(name) = {}
              THEN AssigneeEntries(name) = {}
              ELSE /\ Cardinality(AssigneeEntries(name)) = 1
                   /\ \A i \in AssigneeEntries(name) :
                         resp.assignee_counts[i].count = Cardinality(ActiveTasksOf(name))
        /\ \A i \in 1..Len(resp.assignee_counts) :
              \E t \in TaskSet : t.assignee_name = resp.assignee_counts[i].assignee
        /\ SumCounts(resp.assignee_counts)
              = resp.body.summary.total_tasks - resp.body.summary.completed

C10_Witness ==
    /\ resp.op = "daily"
    /\ \E t \in TaskSet : t.assignee_name = "Asha" /\ t.status = "Done"
    /\ ActiveTasksOf("Asha") = {}
    /\ Cardinality(ActiveTasksOf("Unassigned")) = 2
    /\ Len(resp.assignee_counts) = 1

DashboardLabels == {"Done", "In Progress", "To Do"}

ReportLabels == {"done", "completed", "in progress", "to do", "todo"}

\* C9: every task is counted in exactly one status bucket: the completed,
\* in-progress and to-do counts of the dashboard and of the generated report
\* do not overlap, and together with the tasks of unrecognised status (the
\* unknown bucket) they add up to the total count.
C9_StatusBucketsPartition ==
    /\ HasDashboard =>
          LET sm == DashboardOf.summary
              unknown == Cardinality({i \in 1..Len(tasks) :
                                         tasks[i].status \notin DashboardLabels})
          IN /\ sm.completed + sm.in_progress + sm.todo + unknown = sm.total_tasks
             /\ sm.total_tasks = Len(tasks)
    /\ (resp.op = "report" /\ resp.status = 200) =>
          LET sm == resp.body.summary
              unknown == Cardinality({i \in 1..Len(tasks) :
                                         Lower(tasks[i].status) \notin ReportLabels})
          IN /\ sm.completed + sm.in_progress + sm.todo + unknown = sm.total_tasks
             /\ sm.total_tasks = Len(tasks)

C9_Witness ==
    /\ resp.op = "report"
    /\ resp.status = 200
    /\ resp.body.summary.completed = 1
    /\ resp.body.summary.todo = 1
    /\ resp.body.summary.total_tasks = 3
    /\ \E t \in TaskSet : t.status = "Blocked"

\* str comparison of the assignee names of the model ("Asha" < "Ben" < "Unassigned")
NameRank(name) ==
    CASE name = "Asha" -> 1
      [] name = "Ben" -> 2
      [] name = "Unassigned" -> 3
      [] OTHER -> 4

WorkloadLines == resp.body.markdown.workload_lines

\* C11: the Team Workload section of the daily report lists the assignees by
\* active count descending, and assignees with equal counts in ascending
\* name order.
C11_WorkloadOrderedByCountThenName ==
    resp.op = "daily" =>
        \A i, j \in 1..Len(WorkloadLines) :
            i < j =>
                /\ WorkloadLines[i].count >= WorkloadLines[j].count
                /\ WorkloadLines[i].count = WorkloadLines[j].count
                       => NameRank(WorkloadLines[i].assignee) < NameRank(WorkloadLines[j].assignee)

FallbackSummary ==
    "AI summarization failed. Please verify your Groq API credentials or network connection."

StatusCount(labels) == Cardinality({i \in 1..Len(tasks) : tasks[i].status \in labels})

\* the statistics of the fetched tasks, by the status labels of the source
TaskStatistics ==
    [total_tasks |-> Len(tasks),
     completed |-> StatusCount({"Done", "Completed"}),
     in_progress |-> StatusCount({"In Progress"}),
     todo |-> StatusCount({"To Do", "Todo"})]

\* C12: when the summarizer call fails in generate_report (the keys are
\* present, tasks were fetched, the commit succeeds), the request succeeds:
\* the response carries the statistics of the fetched tasks and the fixed
\* fallback summary, and a report with them is appended to the store.
C12_SummarizerFailureDegrades ==
    [][\A user \in Users, stamp \in {LastStamp(reports), LastStamp(reports) + 1} :
          (tasks # <<>> /\ GenerateReport(user, "report please", TRUE, FALSE, TRUE, stamp))
              => /\ resp'.status = 200
                 /\ resp'.body.summary = TaskStatistics
                 /\ resp'.body.report_markdown.summary_text = FallbackSummary
                 /\ Len(reports') = Len(reports) + 1
                 /\ SubSeq(reports', 1, Len(reports)) = reports
                 /\ reports'[Len(reports')].summary_text = FallbackSummary
                 /\ reports'[Len(reports')].task_summary = TaskStatistics
                 /\ reports'[Len(reports')].report_markdown = resp'.body.report_markdown]_vars

C12_Witness ==
    /\ resp.op = "report"
    /\ resp.status = 200
    /\ resp.body.report_markdown.summary_text = FallbackSummary
    /\ reports # <<>>
    /\ reports[Len(reports)].summary_text = FallbackSummary
    /\ resp.body.summary.completed > 0

\* C13: when the fetched task list is empty, generate_report succeeds whether
\* or not the summarizer or the store would work: it returns the report
\* "No task data available." with all four counts zero and stores nothing.
C13_EmptyTaskListMinimalReport ==
    [][\A user \in Users, llm_ok \in BOOLEAN, db_ok \in BOOLEAN,
          stamp \in {LastStamp(reports), LastStamp(reports) + 1} :
          (tasks = <<>> /\ GenerateReport(user, "report please", TRUE, llm_ok, db_ok, stamp))
              => /\ resp'.status = 200
                 /\ resp'.body.report_markdown.summary_text = "No task data available."
                 /\ resp'.body.report_markdown.lines = <<>>
                 /\ resp'.body.summary
                        = [total_tasks |-> 0, completed |-> 0, in_progress |-> 0, todo |-> 0]
                 /\ reports' = reports]_vars

C13_Witness ==
    /\ resp.op = "report"
    /\ resp.status = 200
    /\ tasks = <<>>
    /\ resp.body.summary.total_tasks = 0
    /\ reports = <<>>

\* C14: the rendered report is returned to the caller of generate_report even
\* if the commit to the store fails: the request is not a failed one and the
\* response carries the markdown and the statistics.
C14_ReportReturnedWhenPersistFails ==
    [][\A user \in Users, llm_ok \in BOOLEAN,
          stamp \in {LastStamp(reports), LastStamp(reports) + 1} :
          (tasks # <<>> /\ GenerateReport(user, "report please", TRUE, llm_ok, FALSE, stamp))
              => /\ resp'.status = 200
                 /\ resp'.body.summary = TaskStatistics]_vars

ErrorFragmentsIn(out) == {i \in 1..Len(out) : out[i] = ErrorFragment}

\* C15: when the upstream summarizer stream fails, at creation or after any
\* number of fragments, exactly one error fragment is yielded and it is the
\* last fragment; the completion call is made once, and once the stream has
\* failed nothing more is yielded.
C15_SingleErrorFragmentThenEnd ==
    [][/\ stream'.pc # "idle" =>
             /\ stream'.calls <= 1
             /\ stream'.failed <=> ErrorFragmentsIn(stream'.out) # {}
             /\ stream'.failed =>
                   /\ ErrorFragmentsIn(stream'.out) = {Len(stream'.out)}
                   /\ stream'.pc \in {"in_except", "done"}
       /\ (stream.pc # "idle" /\ stream.failed) =>
             /\ stream'.out = stream.out
             /\ stream'.calls = stream.calls]_vars

C15_Witness ==
    /\ stream.pc = "done"
    /\ stream.failed
    /\ Len(stream.out) = 3
    /\ stream.chunks = 3

CycleLen == Len(ResponseTokens) + 2

EndMarkersIn(sent) == {i \in 1..Len(sent) : sent[i] = EndMarker}

\* C16: on the channel the acknowledgement is the first message and is sent
\* once; after it every response is its echo, then all its tokens in order,
\* then one end marker, so nothing of a response follows its marker; and a
\* request is received only when the marker of the previous one was sent.
C16_AckTokensThenEndMarker ==
    ws.pc # "idle" =>
        /\ \A i \in 1..Len(ws.sent) : (ws.sent[i] = AckMessage) <=> (i = 1)
        /\ \A i \in 2..Len(ws.sent) :
              LET r == (i - 2) % CycleLen
              IN /\ (r = 0) <=> (ws.sent[i].prefix = "You said: ")
                 /\ (r \in 1..Len(ResponseTokens)) => ws.sent[i] = Text(ResponseTokens[r])
                 /\ (r = CycleLen - 1) <=> (ws.sent[i] = EndMarker)
        /\ Cardinality(EndMarkersIn(ws.sent)) \in {ws.served - 1, ws.served}
        /\ ws.pc = "receive" => Cardinality(EndMarkersIn(ws.sent)) = ws.served
        /\ ws.pc \in {"echo", "tokens", "end"}
              => Cardinality(EndMarkersIn(ws.sent)) = ws.served - 1

C16_Witness ==
    /\ ws.pc = "receive"
    /\ ws.served = 2
    /\ Cardinality(EndMarkersIn(ws.sent)) = 2
    /\ Len(ws.sent) = 1 + 2 * CycleLen

MidStream == {"echo", "tokens", "end"}

C17_SingleFlight ==
    [][/\ sched'.pc # "idle" => Len(sched'.running) <= 1
       /\ (sched.pc # "idle" /\ Len(sched.running) >= 1 /\ sched'.due < sched.due) =>
             /\ sched'.started = sched.started
             /\ sched'.skipped = sched.skipped + 1
             /\ sched'.running = sched.running]_vars

C17_Witness ==
    /\ sched.pc = "started"
    /\ Len(sched.running) = 1
    /\ sched.skipped = 1
    /\ sched.started = 1

\* C19: a successful listing returns every persisted report exactly once,
\* newest first: a report appended later comes before every report appended
\* earlier, also when the two carry the same created_at.
C19_ListNewestFirst ==
    (resp.op = "list" /\ resp.status = 200) =>
        /\ Len(resp.body) = Len(reports)
        /\ \A i \in 1..Len(reports) : resp.body[i] = reports[Len(reports) - i + 1]

\* the tasks an alert request of the given kind is about, by the calendar
Flagged(kind) ==
    {i \in 1..Len(tasks) :
        /\ tasks[i].status # "Done"
        /\ HasDue(tasks[i])
        /\ IF kind = "overdue_alert"
           THEN DaysLeft(tasks[i]) < 0
           ELSE DaysLeft(tasks[i]) \in 0..RiskWindowDays}

\* the address an alert about the task has to go to, "" if there is none
Recipient(task) ==
    IF task.assignee_email # "" THEN task.assignee_email ELSE mail.fallback_email

CallsFor(url) == {k \in 1..Len(mail.outbox) : mail.outbox[k].task_url = url}

\* C20: every call of the email service made by an alert or reminder request
\* is about a flagged task and goes to the assignee's own contact if the task
\* has one, otherwise to the configured default.  In a completed request every
\* flagged task with a recipient got exactly one call and its result names
\* that recipient; a task with neither contact nor default got no call and
\* its result is recorded as not sent, without an address.
C20_AlertRecipientResolution ==
    resp.op \in {"overdue_alert", "deadline_reminder"} =>
        /\ \A k \in 1..Len(mail.outbox) :
              /\ mail.outbox[k].kind = resp.op
              /\ \E i \in Flagged(resp.op) :
                    /\ tasks[i].url = mail.outbox[k].task_url
                    /\ Recipient(tasks[i]) # ""
                    /\ mail.outbox[k].to_email = Recipient(tasks[i])
        /\ \A i \in 1..Len(tasks) : Cardinality(CallsFor(tasks[i].url)) <= 1
        /\ resp.status = 200 =>
              LET results == resp.body.results
                  ResultsTo(e) == {k \in 1..Len(results) : results[k].email = e}
                  FlaggedTo(e) == {i \in Flagged(resp.op) : Recipient(tasks[i]) = e}
              IN /\ Len(results) = Cardinality(Flagged(resp.op))
                 /\ \A i \in Flagged(resp.op) :
                       Cardinality(CallsFor(tasks[i].url))
                           = IF Recipient(tasks[i]) # "" THEN 1 ELSE 0
                 /\ \A e \in {"cara@zen.ai", "lead@zen.ai"} :
                       Cardinality(ResultsTo(e)) = Cardinality(FlaggedTo(e))
                 /\ Cardinality(ResultsTo(None)) = Cardinality(FlaggedTo(""))
                 /\ \A k \in ResultsTo(None) : ~results[k].sent

\* one request with an overdue task that has its own contact and one that
\* has only the configured default
C20_Witness ==
    /\ resp.op = "overdue_alert"
    /\ resp.status = 200
    /\ mail.fallback_email = "lead@zen.ai"
    /\ Len(mail.outbox) = 2
    /\ \E j, k \in 1..2 :
          /\ resp.body.results[j].email = "cara@zen.ai"
          /\ resp.body.results[j].email_source = "notion"
          /\ resp.body.results[k].email = "lead@zen.ai"
          /\ resp.body.results[k].email_source = "fallback"


\* a due string that is present and is no day of the calendar
Malformed(task) == task.due_date # NoDate /\ ~OnCalendar(task.due_date)

\* the batch with the due date of every malformed task taken away
WithoutMalformedDates(ts) ==
    [i \in 1..Len(ts) |->
        IF Malformed(ts[i]) THEN [ts[i] EXCEPT !.due_date = NoDate] ELSE ts[i]]

FlagsOf(body) == [i \in 1..Len(body.tasks) |-> body.tasks[i].is_overdue]

\* C21: a task whose due string does not parse is in neither the overdue list
\* nor the at-risk list and is not flagged by the dashboard; the request is
\* answered, and the answer (lists, counts, flags, daily report) is the one the
\* same batch gives when the malformed task has no due date at all.
C21_MalformedDateIsAbsent ==
    LET clean == WithoutMalformedDates(tasks)
    IN /\ \A t \in TaskSet :
             Malformed(t) =>
                 /\ HasOverdue => t.url \notin EntryUrls(OverdueOf)
                 /\ HasAtRisk => t.url \notin EntryUrls(AtRiskOf)
                 /\ HasDashboard => t.url \notin FlaggedUrls(DashboardOf)
       /\ HasOverdue => OverdueOf = get_overdue_tasks(clean, today)
       /\ HasAtRisk => AtRiskOf = get_at_risk_tasks(clean, today)
       /\ HasDashboard =>
             /\ DashboardOf.summary = get_dashboard(clean, today).summary
             /\ FlagsOf(DashboardOf) = FlagsOf(get_dashboard(clean, today))
       /\ resp.op = "daily" =>
             resp.body = generate_daily_report(get_dashboard(clean, today),
                                               get_overdue_tasks(clean, today),
                                               get_at_risk_tasks(clean, today),
                                               today).body

\* a daily report over a batch with a malformed task, an overdue task and an
\* at-risk task
C21_Witness ==
    /\ resp.op = "daily"
    /\ \E t \in TaskSet : Malformed(t) /\ t.status # "Done"
    /\ resp.body.overdue_count = 1
    /\ resp.body.at_risk_count = 1

\* C22: when the task source fails (NotionIntegration() or the fetch raises),
\* generate_report answers as it does for an empty task set, with the no-data
\* response that tells the user to verify the database id or the key, and
\* stores no report.
C22_SourceFailureHandledAsEmpty ==
    [][\A user \in Users, llm_ok \in BOOLEAN, db_ok \in BOOLEAN,
          stamp \in {LastStamp(reports), LastStamp(reports) + 1} :
          GenerateReport(user, "report please", FALSE, llm_ok, db_ok, stamp)
              => /\ resp'.status = 200
                 /\ resp'.body = no_data_response("report please")
                 /\ reports' = reports]_vars

TaskLines(lines) == {i \in 1..Len(lines) : lines[i].title # ""}

\* C23: in every daily report the Overdue count of the Summary section equals
\* the count in the Overdue Tasks header and the number of overdue task lines,
\* and the At Risk count equals the number of at-risk task lines, whatever
\* the task source does between the fetches of the request.
C23_DailyCountsAgree ==
    resp.op = "daily" =>
        LET md == resp.body.markdown
        IN /\ md.summary.overdue = md.overdue_header
           /\ md.summary.overdue = Cardinality(TaskLines(md.overdue_lines))
           /\ md.summary.at_risk = Cardinality(TaskLines(md.at_risk_lines))

StoredIds == {reports[i].id : i \in 1..Len(reports)}

\* C24: email_report for a report id that is not in the store (the store
\* itself answering) ends in a 404 response, which a send failure never gives,
\* and the request generates no PDF and sends no email.
C24_MissingReportIs404 ==
    [][\A report_id \in ReportIds \ StoredIds, recipient \in Recipients, smtp_ok \in BOOLEAN :
          EmailReport(report_id, recipient, TRUE, smtp_ok)
              => /\ resp'.status = 404
                 /\ mail'.pdfs = 0
                 /\ mail'.outbox = <<>>]_vars

\* the classified tasks of an alert request, in classification order
Classified(kind) ==
    IF kind = "overdue_alert"
    THEN get_overdue_tasks(tasks, today).tasks
    ELSE get_at_risk_tasks(tasks, today).tasks

TotalOf(body) ==
    IF "total_alerts" \in DOMAIN body THEN body.total_alerts ELSE body.total_reminders

\* C25: a completed alert or reminder request has one result per classified
\* task, in classification order, and successful + failed = total = the number
\* of results; after a send that reported failure the remaining classified
\* tasks that have a recipient still got their call, in order.
C25_OneResultPerTask ==
    (resp.op \in {"overdue_alert", "deadline_reminder"} /\ resp.status = 200) =>
        LET listed == Classified(resp.op)
            results == resp.body.results
            WithRecipient == {i \in 1..Len(listed) : Recipient(TaskOf(listed[i].url)) # ""}
        IN /\ Len(results) = Len(listed)
           /\ Cardinality({tasks[i].url : i \in Flagged(resp.op)}) = Len(listed)
           /\ \A i \in 1..Len(listed) :
                 /\ results[i].task = listed[i].title
                 /\ results[i].assignee = listed[i].assignee
                 /\ (results[i].email = None) <=> (i \notin WithRecipient)
           /\ TotalOf(resp.body) = Len(results)
           /\ resp.body.successful + resp.body.failed = TotalOf(resp.body)
           /\ resp.body.successful = Cardinality({i \in 1..Len(results) : results[i].sent})
           /\ Len(mail.outbox) = Cardinality(WithRecipient)
           /\ \A i, j \in WithRecipient :
                 i < j => \E a, b \in 1..Len(mail.outbox) :
                             /\ a < b
                             /\ mail.outbox[a].task_url = listed[i].url
                             /\ mail.outbox[b].task_url = listed[j].url

\* the more overdue task comes second in the task list and first in the
\* results; its send reported failure and the other task was alerted all the
\* same
C25_Witness ==
    /\ resp.op = "overdue_alert"
    /\ resp.status = 200
    /\ Len(resp.body.results) = 2
    /\ resp.body.results[1].email # None
    /\ ~resp.body.results[1].sent
    /\ resp.body.results[2].sent
    /\ Len(mail.outbox) = 2
    /\ resp.body.failed = 1
    /\ PosOf(mail.outbox[1].task_url) > PosOf(mail.outbox[2].task_url)

\* C26: a send_daily_report_email request without an explicit address sends
\* the report to every distinct address at most once, also when several
\* assignee names share an address or NOTIFICATION_EMAIL is an assignee's
\* address; a request with an explicit address makes exactly one send.
C26_OneDigestPerAddress ==
    [][\A email \in DigestEmails, outcome \in [1..Len(tasks) + 1 -> SendOutcomes] :
          (mail.service /\ SendDailyReportEmail(email, outcome)) =>
              IF email = ""
              THEN \A a, b \in 1..Len(mail'.outbox) :
                      a # b => mail'.outbox[a].to_email # mail'.outbox[b].to_email
              ELSE /\ Len(mail'.outbox) = 1
                   /\ mail'.outbox[1].to_email = email]_vars
====
